---- MODULE Spec2Model ----
(***************************************************************************)
(* Model of the equation-solving layer of the OpenModelica C runtime:      *)
(*   solveHybrd  (simulation/solver/nonlinearSolverHybrd.c)                *)
(*   solveLapack (simulation/solver/linearSolverLapack.c)                  *)
(* The external routines _omc_hybrd_, enorm_, dgesv_ and the residual and  *)
(* assembly callbacks are the environment: their results are drawn from    *)
(* small sets.                                                             *)
(***************************************************************************)
EXTENDS Integers, Sequences, FiniteSets, TLC

(***************************************************************************)
(* Bounds of the model.                                                    *)
(***************************************************************************)
\* number of unknowns of the nonlinear system (*size of allocateHybrdData)
NlsSize == 2
\* cap of the history's count of root-finder invocations in one call
MaxInvocations == 200
\* largest number of unknowns of a linear system
LsSize == 2
\* largest number of calls of solveHybrd on one system that are followed
MaxCalls == 2
\* number of nonlinear systems that are solved at once
NumSystems == 2
\* largest number of callbacks of the root-finder followed in one solve
MaxCallbacks == 2

(***************************************************************************)
(* Exact arithmetic for C doubles.  A number is n/d * 10^e in the normal   *)
(* form  d > 0, gcd(n, d) = 1, gcd(d, 10) = 1, 10 does not divide n, and   *)
(* zero is 0/1 * 10^0, so that equal numbers are equal records.            *)
(***************************************************************************)
Abs(a) == IF a < 0 THEN -a ELSE a

RECURSIVE Gcd(_, _)
Gcd(a, b) == IF b = 0 THEN a ELSE Gcd(b, a % b)

RECURSIVE Pow10(_)
Pow10(k) == IF k = 0 THEN 1 ELSE 10 * Pow10(k - 1)

RECURSIVE Strip(_, _, _)
Strip(n, d, e) ==
  IF d % 2 = 0 THEN Strip(n * 5, d \div 2, e - 1)
  ELSE IF d % 5 = 0 THEN Strip(n * 2, d \div 5, e - 1)
  ELSE IF n % 10 = 0 THEN Strip(n \div 10, d, e + 1)
  ELSE [n |-> n, d |-> d, e |-> e]

Mk(n, d, e) ==
  IF n = 0 THEN [n |-> 0, d |-> 1, e |-> 0]
  ELSE LET g == Gcd(Abs(n), d) IN Strip(n \div g, d \div g, e)

D(i) == Mk(i, 1, 0)
DExp(i, e) == Mk(i, 1, e)

DNeg(a) == [a EXCEPT !.n = -a.n]
DAbs(a) == [a EXCEPT !.n = Abs(a.n)]
DMul(a, b) == Mk(a.n * b.n, a.d * b.d, a.e + b.e)
DInv(a) == IF a.n < 0 THEN Mk(-a.d, -a.n, -a.e) ELSE Mk(a.d, a.n, -a.e)
DDiv(a, b) == DMul(a, DInv(b))
DAdd(a, b) ==
  IF a.n = 0 THEN b
  ELSE IF b.n = 0 THEN a
  ELSE LET m == IF a.e < b.e THEN a.e ELSE b.e
       IN Mk(a.n * Pow10(a.e - m) * b.d + b.n * Pow10(b.e - m) * a.d, a.d * b.d, m)

\* l * 10^k < r for naturals l, r and k >= 0, without forming l * 10^k
RECURSIVE LessPow(_, _, _)
LessPow(l, r, k) == IF k = 0 THEN l < r ELSE LessPow(l, (r + 9) \div 10, k - 1)

\* a < b for a, b >= 0
PosLess(a, b) ==
  LET l == a.n * b.d
      r == b.n * a.d
      k == a.e - b.e
  IN IF k >= 0 THEN LessPow(l, r, k) ELSE ~LessPow(r, l + 1, -k)

DLess(a, b) ==
  IF a.n < 0 THEN (IF b.n < 0 THEN PosLess(DNeg(b), DNeg(a)) ELSE TRUE)
  ELSE (IF b.n <= 0 THEN FALSE ELSE PosLess(a, b))
DLeq(a, b) == ~DLess(b, a)

\* floor of the square root of a natural
RECURSIVE ISqrtFrom(_, _)
ISqrtFrom(s, r) == IF (r + 1) * (r + 1) > s THEN r ELSE ISqrtFrom(s, r + 1)
ISqrt(s) == ISqrtFrom(s, 0)

\* square root of a >= 0; exact when a is the square of a number
DSqrt(a) ==
  IF a.e % 2 = 0 THEN Mk(ISqrt(a.n), ISqrt(a.d), a.e \div 2)
  ELSE Mk(ISqrt(a.n * 10), ISqrt(a.d), (a.e - 1) \div 2)

(***************************************************************************)
(* Vectors of NlsSize doubles.                                             *)
(***************************************************************************)
Idx == 1..NlsSize
Vec(r) == [i \in Idx |-> r]
\* a vector with one non-zero component
Unit(r) == [i \in Idx |-> IF i = 1 THEN r ELSE D(0)]

RECURSIVE SumSq(_, _)
SumSq(v, k) == IF k = 0 THEN D(0) ELSE DAdd(SumSq(v, k - 1), DMul(v[k], v[k]))

\* the Euclidean norm (MINPACK's enorm_)
enorm_(v) == DSqrt(SumSq(v, NlsSize))

(***************************************************************************)
(* State.  The records keep the C structures' field names.                 *)
(*   systemData     NONLINEAR_SYSTEM_DATA of the system being solved       *)
(*   solverData     DATA_HYBRD of that system                              *)
(*   simulationInfo the fields of data->simulationInfo solveHybrd uses     *)
(*   local          the automatic variables of solveHybrd                  *)
(*   pc             where solveHybrd stands                                *)
(*   hist           history of the current call (not program state): the   *)
(*                  number of root-finder invocations and recovery actions,*)
(*                  the branch taken last, the diagnostics emitted, the    *)
(*                  factor at entry and at the last invocation, the        *)
(*                  iterate after the last re-scaling, the seed (x0), the  *)
(*                  counters before the last pass of the ladder, the tiers *)
(*                  that have fired, and the coordinates of x: space is    *)
(*                  the number of divisions by nlsxScaling that no         *)
(*                  multiplication has undone (0: physical, 1: un-scaled), *)
(*                  residualSpaces the spaces the residual function was    *)
(*                  called in, ladderSpace the space the ladder found x in,*)
(*                  tolerance the local_tol of the last convergence test,  *)
(*                  the number of calls so far and the local_tol the call  *)
(*                  before this one ended with (left), and the numbers of  *)
(*                  T1, R and T3 tiers fired (actions), and the number of  *)
(*                  T1a tiers fired since the call was entered or the last *)
(*                  of R3, T3a .. T3f fired (divisions)                    *)
(***************************************************************************)
VARIABLES systemData, solverData, simulationInfo, local, pc, hist

hybrdVars == <<systemData, solverData, simulationInfo, local, pc, hist>>

(***************************************************************************)
(* State of the linear solver.                                             *)
(*   linearSystemData  LINEAR_SYSTEM_DATA: size, A (column-major, n*n),    *)
(*                     b, x                                                *)
(*   lapackData        DATA_LAPACK: ipiv, nrhs, info                       *)
(*   lapackCall        where solveLapack stands (pc), its local success,   *)
(*                     the warning it printed, and the history of the      *)
(*                     call: the matrix handed to dgesv_, the status and   *)
(*                     the right-hand side dgesv_ left, the steps taken    *)
(*                     (trace), the matrix found at entry and the matrix   *)
(*                     the assembly callback described                     *)
(***************************************************************************)
VARIABLES linearSystemData, lapackData, lapackCall

lapackVars == <<linearSystemData, lapackData, lapackCall>>

(***************************************************************************)
(* The vector of one scaling round trip: x as it is now, x0 as it was      *)
(* handed in, the flag and the scale factors in effect, and which of the   *)
(* two round trips has been made (at).                                     *)
(***************************************************************************)
VARIABLE roundTrip

(***************************************************************************)
(* Solves of several nonlinear systems at once, one caller per system.     *)
(*   currentNonlinearSystemIndex  the one index in simulationInfo that     *)
(*                     wrapper_fvec_hybrd looks the system up with         *)
(*   solves            per caller (the caller of system t is t): where its *)
(*                     solveHybrd(data, t) stands, the number of callbacks *)
(*                     its root-finder has made, the residual evaluations  *)
(*                     made for it (which kind, the index read, the system *)
(*                     whose residualFunc, nlsxScaling and useXScaling     *)
(*                     were used), and whether the index was another       *)
(*                     system's at some point of the call (disturbed)      *)
(***************************************************************************)
VARIABLES currentNonlinearSystemIndex, solves

dispatchVars == <<currentNonlinearSystemIndex, solves>>

vars == <<hybrdVars, lapackVars, roundTrip, dispatchVars>>

(***************************************************************************)
(* The environment's values.                                               *)
(***************************************************************************)
\* the vectors the caller supplies: the solution slot nlsx as the last step
\* left it, the old values nlsxOld and the extrapolated values
SolutionVectors == {Vec(D(2))}
OldVectors == {Vec(D(5))}
ExtrapolatedVectors == {Vec(D(3))}
\* scale factors, strictly positive
ScalingVectors == {[i \in Idx |-> D(i + 1)]}
\* contents of malloc'ed memory nobody has written yet
Uninitialized == {Vec(D(7)), Vec(D(-7))}
\* iterates the root-finder may stop at (in its own, un-scaled coordinates)
RootVectors == {Vec(D(4))}
\* residual vectors the residual function may return
ResidualVectors == {Unit(D(0)), Unit(DExp(5, -12)), Unit(DExp(5, -9))}
\* diagonals the root-finder computes for itself in mode 1
InternalDiags == {Vec(D(2))}
\* termination codes of the root-finder: 0..5, or the negative iflag of a
\* residual callback that asked to stop
TerminationCodes == {-1, 0, 1, 2, 3, 4, 5}

\* the Jacobian estimate, n*n doubles addressed as fjacobian[l]
JacMat(c) ==
  [l \in 1..(NlsSize * NlsSize) |->
     IF (l - 1) \div NlsSize = (l - 1) % NlsSize THEN c ELSE D(0)]
Jacobians == {JacMat(D(0)), JacMat(D(-100))}

(***************************************************************************)
(* wrapper_fvec_hybrd: what the adapter does to the vector x it is given.  *)
(* The residual function reads x and does not write it.                    *)
(***************************************************************************)
\* an adapter that hands the vector back as the residual function saw it
wrapper_fvec_unscaled(x, useXScaling, nlsxScaling) ==
  IF useXScaling THEN [i \in Idx |-> DMul(x[i], nlsxScaling[i])] ELSE x

wrapper_fvec_hybrd(x, useXScaling, nlsxScaling) ==
  LET scaled == IF useXScaling
                THEN [i \in Idx |-> DMul(x[i], nlsxScaling[i])]
                ELSE x
  IN IF useXScaling
     THEN [i \in Idx |-> DMul(DInv(nlsxScaling[i]), scaled[i])]
     ELSE scaled

\* one division of x by nlsxScaling, and one multiplication, under the flag
SpaceDivided(space, useXScaling) == IF useXScaling THEN space + 1 ELSE space
SpaceMultiplied(space, useXScaling) == IF useXScaling THEN space - 1 ELSE space

\* a direct evaluation that leaves the x-scaling on
DirectEvaluationScaled(x, useXScaling, nlsxScaling) ==
  [x |-> wrapper_fvec_hybrd(x, useXScaling, nlsxScaling),
   during |-> useXScaling, useXScaling |-> useXScaling]

\* lines 266-274 and 337-348: the residual is evaluated through the adapter
\* with the x-scaling switched off, and switched on again if it was on.
\* Result: x, the flag during the evaluation and the flag after it.
DirectEvaluation(x, useXScaling, nlsxScaling) ==
  LET scaling == useXScaling
      during == IF scaling THEN FALSE ELSE useXScaling
  IN [x |-> wrapper_fvec_hybrd(x, during, nlsxScaling),
      during |-> during,
      useXScaling |-> IF scaling THEN TRUE ELSE during]

\* lines 288-293: scaling x before the root-finder is called
ScaleX(x, useXScaling, nlsxScaling) ==
  IF useXScaling
  THEN [i \in Idx |-> DMul(DInv(nlsxScaling[i]), x[i])]
  ELSE x

\* lines 324-329: re-scaling x after the root-finder returned
RescaleX(x, useXScaling, nlsxScaling) ==
  IF useXScaling
  THEN [i \in Idx |-> DMul(x[i], nlsxScaling[i])]
  ELSE x

\* lines 363-381: residual scaled by the largest |entry| of its Jacobian row
RECURSIVE RowMax(_, _, _)
RowMax(fjacobian, i, j) ==
  IF j = 0 THEN DExp(1, -16)
  ELSE LET m == RowMax(fjacobian, i, j - 1)
           a == DAbs(fjacobian[(i - 1) * NlsSize + j])
       IN IF DLess(m, a) THEN a ELSE m

ScaleResidual(fvec, fjacobian) ==
  [i \in Idx |-> DMul(fvec[i], DInv(RowMax(fjacobian, i, NlsSize)))]

\* lines 363-385 for every residual and Jacobian of the environment
ResidualOutcomes ==
  {[fvec |-> f, fjacobian |-> j, resScaling |-> ScaleResidual(f, j),
    xerror_scaled |-> enorm_(ScaleResidual(f, j)), xerror |-> enorm_(f)] :
     f \in ResidualVectors, j \in Jacobians}

(***************************************************************************)
(* Init: the state allocateHybrdData leaves, before the first solve.       *)
(***************************************************************************)
InitLocal ==
  [success |-> FALSE, giveUp |-> FALSE, retries |-> 0, retries2 |-> 0,
   retries3 |-> 0, local_tol |-> DExp(1, -12), initial_factor |-> D(100),
   xerror |-> D(0), xerror_scaled |-> D(0)]

InitHist ==
  [invocations |-> 0, recoveries |-> 0, tier |-> "none", seed |-> "entry",
   t3f |-> 0, improperInput |-> 0, errorAtTime |-> 0,
   entryFactor |-> D(100), factorUsed |-> D(100),
   xAfter |-> Vec(D(0)), xT3e |-> Vec(D(0)), lastInfo |-> 1,
   x0 |-> Vec(D(0)), before |-> [retries |-> 0, retries2 |-> 0, retries3 |-> 0],
   fired |-> {}, space |-> 0, residualSpaces |-> {}, ladderSpace |-> 0,
   flagRestored |-> TRUE, tolerance |-> DExp(1, -12),
   calls |-> 0, left |-> DExp(1, -12),
   actions |-> [t1 |-> 0, r |-> 0, t3 |-> 0],
   divisions |-> 0]

HybrdAllocated(u, sys) ==
  /\ pc = "idle"
  /\ systemData = sys
  /\ solverData =
       [x |-> u, fvec |-> Vec(D(0)), resScaling |-> u, diag |-> u,
        fjacobian |-> JacMat(u[1]), useXScaling |-> TRUE, mode |-> 1,
        factor |-> D(100), info |-> 0]
  /\ simulationInfo =
       [discreteCall |-> FALSE, initial |-> FALSE, found_solution |-> 0,
        solveContinuous |-> FALSE]
  /\ local = InitLocal
  /\ hist = InitHist

SystemDatas ==
  [nlsx : SolutionVectors, nlsxOld : OldVectors,
   nlsxExtrapolation : ExtrapolatedVectors, nlsxScaling : ScalingVectors]

InitHybrd == \E u \in Uninitialized, sys \in SystemDatas : HybrdAllocated(u, sys)

(***************************************************************************)
(* solveHybrd, lines 219-274: the caller has set discreteCall and initial; *)
(* the locals are initialised, x is seeded and the residual is evaluated   *)
(* once with x-scaling switched off and on again.                          *)
(***************************************************************************)
SeedX(sim, sys) == IF sim.discreteCall THEN sys.nlsx ELSE sys.nlsxExtrapolation

SolveHybrdCalled(from, discreteCalls, initials, residuals) ==
  /\ pc = from
  /\ \E dc \in discreteCalls, ini \in initials, f \in residuals :
       \E sim \in {[simulationInfo EXCEPT !.discreteCall = dc, !.initial = ini]} :
       \* lines 266-274: evaluated with x-scaling switched off and on again
       \E ev \in {DirectEvaluation(SeedX(sim, systemData), solverData.useXScaling,
                                   systemData.nlsxScaling)} :
          /\ simulationInfo' = sim
          /\ solverData' = [solverData EXCEPT
               !.x = ev.x, !.fvec = f, !.useXScaling = ev.useXScaling]
          /\ local' = [InitLocal EXCEPT !.initial_factor = solverData.factor]
          /\ hist' = [InitHist EXCEPT
               !.entryFactor = solverData.factor,
               !.xAfter = ev.x,
               !.x0 = ev.x,
               !.residualSpaces = {SpaceMultiplied(0, ev.during)},
               !.flagRestored = (ev.useXScaling = solverData.useXScaling),
               !.calls = hist.calls + 1,
               !.left = local.local_tol]
  /\ pc' = "loop"
  /\ UNCHANGED <<systemData, lapackVars, roundTrip, dispatchVars>>

\* the first call on a system, with any flags of the caller
SolveHybrdEntry == SolveHybrdCalled("idle", BOOLEAN, BOOLEAN, ResidualVectors)

\* the residual at the start of a further call: not zero
LaterResiduals == {Unit(DExp(5, -9))}

\* a further call on the same system, outside initialization, at a point
\* where the residual is not zero
SolveHybrdAgain ==
  /\ hist.calls < MaxCalls
  /\ SolveHybrdCalled("returned", BOOLEAN, {FALSE}, LaterResiduals)

(***************************************************************************)
(* Loop head and lines 278-312: x is handed to the root-finder in its      *)
(* un-scaled coordinates, solveContinuous is set, giveUp = 1.              *)
(***************************************************************************)
InvokeHybrd ==
  /\ pc = "loop"
  /\ ~local.giveUp /\ ~local.success
  /\ hist.invocations < MaxInvocations
  /\ solverData' = [solverData EXCEPT
       !.x = ScaleX(solverData.x, solverData.useXScaling, systemData.nlsxScaling)]
  /\ simulationInfo' = [simulationInfo EXCEPT
       !.solveContinuous =
          IF ~(solverData.info = 4 /\ simulationInfo.discreteCall)
          THEN TRUE ELSE simulationInfo.solveContinuous]
  /\ local' = [local EXCEPT !.giveUp = TRUE]
  /\ hist' = [hist EXCEPT !.invocations = hist.invocations + 1,
                          !.factorUsed = solverData.factor,
                          !.space = SpaceDivided(hist.space, solverData.useXScaling)]
  /\ pc' = "hybrd"
  /\ UNCHANGED <<systemData, lapackVars, roundTrip, dispatchVars>>

(***************************************************************************)
(* Lines 390-595: the convergence test and the ladder of recovery tiers,   *)
(* in the order of the else-if chain.  Result: the new solverData and      *)
(* locals, and the name of the branch taken ("none": no branch matched).   *)
(***************************************************************************)
\* a stall test that knows code 4 only
StalledOnFour(sd) == sd.info = 4

\* the test (info == 4 || info == 5) of every recovery branch
Stalled(sd) == sd.info = 4 \/ sd.info = 5

\* a recovery tier that also clears the restart counter
RetryClearsRestarts(loc) == [loc EXCEPT !.giveUp = FALSE, !.retries2 = 0]

\* giveUp = 0: every recovery tier asks for another pass of the loop
Retry(loc) == [loc EXCEPT !.giveUp = FALSE]

\* a convergence test that compares with an already relaxed tolerance
ConvergedRelaxed(sd, loc) ==
  \/ sd.info = 1
  \/ DLeq(loc.xerror, DMul(loc.local_tol, D(10)))
  \/ DLeq(loc.xerror_scaled, DMul(loc.local_tol, D(10)))

\* line 391: solution found
Converged(sd, loc) ==
  \/ sd.info = 1
  \/ DLeq(loc.xerror, loc.local_tol)
  \/ DLeq(loc.xerror_scaled, loc.local_tol)

\* a factor that is halved
HalveFactor(factor) == DDiv(factor, D(2))

\* line 407
DecreaseFactor(factor) == DDiv(factor, D(10))

\* a relaxation by a factor 100
RelaxToleranceTwice(local_tol) == DMul(local_tol, D(100))

\* line 571
RelaxTolerance(local_tol) == DMul(local_tol, D(10))

\* a give-up branch that puts the iterate back to the extrapolated start
GiveUpRestoresStart(sd, sys, loc) ==
  [tier |-> "giveup", sd |-> [sd EXCEPT !.x = sys.nlsxExtrapolation], loc |-> loc]

\* lines 582-595: no tier is left for a code in 2..5
GiveUp(sd, sys, loc) == [tier |-> "giveup", sd |-> sd, loc |-> loc]

Ladder(sd, sys, loc) ==
  IF Converged(sd, loc)
  THEN [tier |-> "solved", sd |-> sd, loc |-> [loc EXCEPT !.success = TRUE]]
  ELSE IF Stalled(sd) /\ loc.retries < 3
  THEN [tier |-> "T1a",
        sd |-> [sd EXCEPT !.factor = DecreaseFactor(sd.factor)],
        loc |-> [Retry(loc) EXCEPT !.retries = loc.retries + 1]]
  ELSE IF Stalled(sd) /\ loc.retries < 5
  THEN [tier |-> "T1c",
        sd |-> [sd EXCEPT !.x = [i \in Idx |->
                  DAdd(sd.x[i], DMul(sys.nlsxScaling[i], DExp(1, -1)))]],
        loc |-> [Retry(loc) EXCEPT !.retries = loc.retries + 1]]
  ELSE IF Stalled(sd) /\ loc.retries < 4
  THEN [tier |-> "T1b",
        sd |-> [sd EXCEPT !.useXScaling = FALSE],
        loc |-> [Retry(loc) EXCEPT !.retries = loc.retries + 1]]
  ELSE IF Stalled(sd) /\ loc.retries2 < 1
  THEN [tier |-> "R1",
        sd |-> [sd EXCEPT
                  !.x = [i \in Idx |-> DMul(sys.nlsxExtrapolation[i], DExp(101, -2))],
                  !.useXScaling = TRUE],
        loc |-> [Retry(loc) EXCEPT !.retries = 0, !.retries2 = loc.retries2 + 1]]
  ELSE IF Stalled(sd) /\ loc.retries2 < 2
  THEN [tier |-> "R2",
        sd |-> [sd EXCEPT
                  !.x = [i \in Idx |-> DMul(sys.nlsxExtrapolation[i], DExp(99, -2))],
                  !.useXScaling = TRUE],
        loc |-> [Retry(loc) EXCEPT !.retries = 0, !.retries2 = loc.retries2 + 1]]
  ELSE IF Stalled(sd) /\ loc.retries2 < 3
  THEN [tier |-> "R3",
        sd |-> [sd EXCEPT
                  !.x = [i \in Idx |-> sys.nlsxOld[i]],
                  !.factor = loc.initial_factor,
                  !.useXScaling = TRUE],
        loc |-> [Retry(loc) EXCEPT !.retries = 0, !.retries2 = loc.retries2 + 1]]
  ELSE IF Stalled(sd) /\ loc.retries3 < 1
  THEN [tier |-> "T3a",
        sd |-> [sd EXCEPT
                  !.diag = [i \in Idx |->
                     IF DLeq(DAbs(sd.resScaling[i]), D(0))
                     THEN DExp(1, -16) ELSE DAbs(sd.resScaling[i])],
                  !.factor = loc.initial_factor,
                  !.useXScaling = TRUE,
                  !.mode = 2],
        loc |-> [Retry(loc) EXCEPT !.retries = 0, !.retries2 = 0,
                                    !.retries3 = loc.retries3 + 1]]
  ELSE IF Stalled(sd) /\ loc.retries3 < 2
  THEN [tier |-> "T3b",
        sd |-> [sd EXCEPT
                  !.x = [i \in Idx |-> sys.nlsxScaling[i]],
                  !.factor = loc.initial_factor,
                  !.useXScaling = TRUE,
                  !.mode = 1],
        loc |-> [Retry(loc) EXCEPT !.retries = 0, !.retries2 = 0,
                                    !.retries3 = loc.retries3 + 1]]
  ELSE IF Stalled(sd) /\ loc.retries3 < 3
  THEN [tier |-> "T3c",
        sd |-> [sd EXCEPT
                  !.x = [i \in Idx |-> D(1)],
                  !.factor = loc.initial_factor,
                  !.useXScaling = TRUE,
                  !.mode = 1],
        loc |-> [Retry(loc) EXCEPT !.retries = 0, !.retries2 = 0,
                                    !.retries3 = loc.retries3 + 1]]
  ELSE IF Stalled(sd) /\ loc.retries3 < 4
  THEN [tier |-> "T3d",
        sd |-> [sd EXCEPT
                  !.x = [i \in Idx |-> D(0)],
                  !.factor = loc.initial_factor,
                  !.useXScaling = TRUE,
                  !.mode = 1],
        loc |-> [Retry(loc) EXCEPT !.retries = 0, !.retries2 = 0,
                                    !.retries3 = loc.retries3 + 1]]
  ELSE IF Stalled(sd) /\ loc.retries3 < 5
  THEN [tier |-> "T3e",
        sd |-> [sd EXCEPT
                  !.x = [i \in Idx |-> sys.nlsxExtrapolation[i]],
                  !.diag = [i \in Idx |-> D(1)],
                  !.factor = loc.initial_factor,
                  !.useXScaling = TRUE,
                  !.mode = 2],
        loc |-> [Retry(loc) EXCEPT !.retries = 0, !.retries2 = 0,
                                    !.retries3 = loc.retries3 + 1]]
  ELSE IF Stalled(sd) /\ loc.retries3 < 7
  THEN [tier |-> "T3f",
        sd |-> [sd EXCEPT
                  !.factor = loc.initial_factor,
                  !.useXScaling = TRUE,
                  !.mode = 2],
        loc |-> [Retry(loc) EXCEPT !.local_tol = RelaxTolerance(loc.local_tol),
                                    !.retries = 0, !.retries2 = 0,
                                    !.retries3 = loc.retries3 + 1]]
  ELSE IF sd.info >= 2 /\ sd.info <= 5
  THEN GiveUp(sd, sys, loc)
  ELSE [tier |-> "none", sd |-> sd, loc |-> loc]

RecoveryTiers ==
  {"T1a", "T1b", "T1c", "R1", "R2", "R3", "T3a", "T3b", "T3c", "T3d", "T3e", "T3f"}
T1Tiers == {"T1a", "T1b", "T1c"}
RTiers == {"R1", "R2", "R3"}
T3Tiers == {"T3a", "T3b", "T3c", "T3d", "T3e", "T3f"}
\* the tiers that overwrite the iterate with a new start value
SeedingTiers == {"R1", "R2", "R3", "T3b", "T3c", "T3d", "T3e"}

(***************************************************************************)
(* Lines 313-596: the root-finder returns (termination code, iterate,      *)
(* residual, Jacobian estimate, and in mode 1 its own diagonal); then the  *)
(* rest of the loop body.                                                  *)
(***************************************************************************)
\* lines 330-335 and 582-583: the flag found_solution
FoundSolution(sim, info, tier) ==
  IF info = 0 \/ tier = "giveup" THEN -1 ELSE sim.found_solution

\* an error-at-time report that does not look at the initialization phase
ErrorAtTimeAlways(sim, tier) == tier = "giveup"

\* lines 586-588: the error-at-time report of the give-up branch
ErrorAtTime(sim, tier) == tier = "giveup" /\ ~sim.initial

\* a check that takes the root-finder's code as it comes
ReclassifyNever(info, xerror, xerror_scaled, local_tol) == info

\* lines 383-387: a code 1 with both norms above the tolerance becomes 4
Reclassify(info, xerror, xerror_scaled, local_tol) ==
  IF info = 1 /\ DLess(local_tol, xerror) /\ DLess(local_tol, xerror_scaled)
  THEN 4 ELSE info

HybrdReturns(codes, roots, outcomes) ==
  /\ pc = "hybrd"
  /\ \E code \in codes,
        xh \in {solverData.x} \cup roots,
        r \in outcomes,
        dg \in InternalDiags :
       \* lines 324-329, and 337-348: in a discrete call the residual is
       \* evaluated once more, with x-scaling switched off and on again
       \E xs \in {RescaleX(xh, solverData.useXScaling, systemData.nlsxScaling)} :
       \E ev \in {IF simulationInfo.discreteCall
                  THEN DirectEvaluation(xs, solverData.useXScaling,
                                        systemData.nlsxScaling)
                  ELSE [x |-> xs, during |-> solverData.useXScaling,
                        useXScaling |-> solverData.useXScaling]} :
       \* the space of x after line 329
       \E sp \in {SpaceMultiplied(hist.space, solverData.useXScaling)} :
       \E info \in {Reclassify(code, r.xerror, r.xerror_scaled, local.local_tol)} :
       \E out \in {Ladder(
                     [solverData EXCEPT
                        !.x = ev.x, !.useXScaling = ev.useXScaling,
                        !.fvec = r.fvec, !.fjacobian = r.fjacobian,
                        !.resScaling = r.resScaling, !.info = info,
                        !.diag = IF solverData.mode = 1 THEN dg ELSE solverData.diag],
                     systemData,
                     [local EXCEPT !.xerror = r.xerror,
                                   !.xerror_scaled = r.xerror_scaled])} :
          /\ solverData' = out.sd
          /\ local' = out.loc
          /\ simulationInfo' = [simulationInfo EXCEPT
               !.solveContinuous = FALSE,
               !.found_solution = FoundSolution(simulationInfo, code, out.tier)]
          /\ hist' = [hist EXCEPT
               !.tier = out.tier,
               !.recoveries = IF out.tier \in RecoveryTiers
                              THEN hist.recoveries + 1 ELSE hist.recoveries,
               !.t3f = IF out.tier = "T3f" THEN hist.t3f + 1 ELSE hist.t3f,
               !.seed = IF out.tier \in SeedingTiers THEN out.tier ELSE hist.seed,
               !.xT3e = IF hist.tier = "T3e" THEN xs ELSE hist.xT3e,
               !.improperInput = IF code = 0 THEN hist.improperInput + 1
                                 ELSE hist.improperInput,
               !.errorAtTime = IF ErrorAtTime(simulationInfo, out.tier)
                               THEN hist.errorAtTime + 1 ELSE hist.errorAtTime,
               !.xAfter = xs,
               !.lastInfo = code,
               !.before = [retries |-> local.retries, retries2 |-> local.retries2,
                           retries3 |-> local.retries3],
               !.fired = IF out.tier \in RecoveryTiers
                         THEN hist.fired \cup {out.tier} ELSE hist.fired,
               \* the callbacks of the root-finder go through the adapter
               \* with x as the root-finder holds it; the direct evaluation
               \* of a discrete call follows the re-scaling
               !.residualSpaces =
                  hist.residualSpaces
                    \cup {SpaceMultiplied(hist.space, solverData.useXScaling)}
                    \cup (IF simulationInfo.discreteCall
                          THEN {SpaceMultiplied(sp, ev.during)} ELSE {}),
               !.ladderSpace = sp,
               !.divisions =
                  IF out.tier = "T1a" THEN hist.divisions + 1
                  ELSE IF out.tier \in {"R3"} \cup T3Tiers THEN 0
                  ELSE hist.divisions,
               !.actions =
                  [t1 |-> hist.actions.t1 + (IF out.tier \in T1Tiers THEN 1 ELSE 0),
                   r |-> hist.actions.r + (IF out.tier \in RTiers THEN 1 ELSE 0),
                   t3 |-> hist.actions.t3 + (IF out.tier \in T3Tiers THEN 1 ELSE 0)],
               !.tolerance = local.local_tol,
               !.space = IF out.tier \in SeedingTiers THEN 0 ELSE sp,
               !.flagRestored = (hist.flagRestored
                                   /\ ev.useXScaling = solverData.useXScaling)]
  /\ pc' = "loop"
  /\ UNCHANGED <<systemData, lapackVars, roundTrip, dispatchVars>>

\* the root-finder returns anything it may
HybrdDone == HybrdReturns(TerminationCodes, RootVectors, ResidualOutcomes)

\* the residuals whose two norms stay above the tolerance however relaxed
StallOutcomes ==
  {r \in ResidualOutcomes :
     /\ DLess(DExp(1, -10), r.xerror)
     /\ DLess(DExp(1, -10), r.xerror_scaled)}

\* the residuals that are zero
ZeroOutcomes == {r \in ResidualOutcomes : r.xerror = D(0)}

\* the residuals a root-finder that does not move the iterate hands back
StallOrZeroOutcomes == StallOutcomes \cup ZeroOutcomes

\* a root-finder that never moves the iterate: it hands back any code, with
\* a zero residual or with one that no relaxation of the tolerance accepts
HybrdStalls == HybrdReturns(TerminationCodes, {}, StallOrZeroOutcomes)

\* a root-finder that never moves the iterate and reports code 4, with a
\* zero residual or with one that no relaxation of the tolerance accepts
HybrdStallsOrSolves == HybrdReturns({4}, {}, StallOrZeroOutcomes)

(***************************************************************************)
(* Lines 599-606: the loop has ended; x is copied to nlsx, the factor is   *)
(* reset, success is returned.                                             *)
(***************************************************************************)
\* a return that writes the iterate back only when it converged
ReturnWritesOnSuccess ==
  /\ pc = "loop"
  /\ local.giveUp \/ local.success
  /\ systemData' = [systemData EXCEPT
       !.nlsx = IF local.success THEN solverData.x ELSE systemData.nlsx]
  /\ solverData' = [solverData EXCEPT !.factor = local.initial_factor]
  /\ pc' = "returned"
  /\ UNCHANGED <<simulationInfo, local, hist, lapackVars, roundTrip, dispatchVars>>

\* a return that leaves the factor as the last tier set it
ReturnKeepsFactor ==
  /\ pc = "loop"
  /\ local.giveUp \/ local.success
  /\ systemData' = [systemData EXCEPT !.nlsx = solverData.x]
  /\ pc' = "returned"
  /\ UNCHANGED <<solverData, simulationInfo, local, hist, lapackVars, roundTrip, dispatchVars>>

Return ==
  /\ pc = "loop"
  /\ local.giveUp \/ local.success
  /\ systemData' = [systemData EXCEPT !.nlsx = solverData.x]
  /\ solverData' = [solverData EXCEPT !.factor = local.initial_factor]
  /\ pc' = "returned"
  /\ UNCHANGED <<simulationInfo, local, hist, lapackVars, roundTrip, dispatchVars>>

(***************************************************************************)
(* The linear solver.  Matrices are n*n doubles in column-major order,     *)
(* entry (i, j) at A[(j - 1) * n + i]; vectors are n doubles.              *)
(***************************************************************************)
DSub(a, b) == DAdd(a, DNeg(b))

At(A, n, i, j) == A[(j - 1) * n + i]
RowOf(l, n) == ((l - 1) % n) + 1
ColOf(l, n) == ((l - 1) \div n) + 1

\* the matrices the assembly callback may describe
IdentityMatrix(n) ==
  [l \in 1..(n * n) |-> IF RowOf(l, n) = ColOf(l, n) THEN D(1) ELSE D(0)]
DenseMatrix(n) ==
  [l \in 1..(n * n) |-> IF RowOf(l, n) = ColOf(l, n) THEN D(2) ELSE D(1)]
\* the identity with a zero at position k of the diagonal
ZeroPivotMatrix(n, k) ==
  [l \in 1..(n * n) |->
     IF RowOf(l, n) = ColOf(l, n) /\ RowOf(l, n) # k THEN D(1) ELSE D(0)]
\* non-zero entries on the anti-diagonal only: every column needs a row swap
AntiDiagonalMatrix(n) ==
  [l \in 1..(n * n) |-> IF RowOf(l, n) + ColOf(l, n) = n + 1 THEN D(2) ELSE D(0)]

Matrices(n) ==
  {IdentityMatrix(n), DenseMatrix(n), AntiDiagonalMatrix(n)}
    \cup {ZeroPivotMatrix(n, k) : k \in 1..n}

\* the right-hand sides the assembly callback may write
RhsVectors(n) ==
  {[i \in 1..n |-> D(i)], [i \in 1..n |-> IF i = 1 THEN D(1) ELSE D(0)]}

\* contents of the buffers of a system nobody has written yet
UninitializedMatrix(n) == [l \in 1..(n * n) |-> D(9)]
UninitializedVector(n) == [i \in 1..n |-> D(9)]
UninitializedPivots(n) == [i \in 1..n |-> 0]

NoWarning == [kind |-> "none", index |-> 0]

(***************************************************************************)
(* allocateLapackData, lines 61-72, and the system's buffers as the model  *)
(* setup allocated them.                                                   *)
(***************************************************************************)
LapackAllocated(n) ==
  /\ linearSystemData =
       [size |-> n, A |-> UninitializedMatrix(n), b |-> UninitializedVector(n),
        x |-> [i \in 1..n |-> D(0)]]
  /\ lapackData = [ipiv |-> UninitializedPivots(n), nrhs |-> 1, info |-> 0]
  /\ lapackCall =
       [pc |-> "idle", success |-> TRUE, warning |-> NoWarning,
        assembled |-> <<>>, status |-> 0, rhs |-> <<>>,
        trace |-> <<>>, atEntry |-> <<>>, described |-> <<>>]

InitLapack == \E n \in 0..LsSize : LapackAllocated(n)

(***************************************************************************)
(* dgesv_ (LAPACK): checks its arguments, factors A = P*L*U with partial   *)
(* pivoting (dgetrf_), and, when no pivot is zero, overwrites b with the   *)
(* solution (dgetrs_).  info is the negated position of the first illegal  *)
(* argument, or the 1-based index of the first zero pivot, or 0.           *)
(***************************************************************************)
\* idamax: the first row among j..i with the largest |A(row, j)|
RECURSIVE PivotRow(_, _, _, _)
PivotRow(A, n, j, i) ==
  IF i = j THEN j
  ELSE LET p == PivotRow(A, n, j, i - 1)
       IN IF DLess(DAbs(At(A, n, p, j)), DAbs(At(A, n, i, j))) THEN i ELSE p

SwapRows(A, n, r1, r2) ==
  [l \in 1..(n * n) |->
     IF RowOf(l, n) = r1 THEN At(A, n, r2, ColOf(l, n))
     ELSE IF RowOf(l, n) = r2 THEN At(A, n, r1, ColOf(l, n))
     ELSE A[l]]

\* column j of L and the update of the trailing sub-matrix
Eliminate(A, n, j) ==
  [l \in 1..(n * n) |->
     LET i == RowOf(l, n)
         c == ColOf(l, n)
     IN IF i > j /\ c = j THEN DDiv(A[l], At(A, n, j, j))
        ELSE IF i > j /\ c > j
        THEN DSub(A[l], DMul(DDiv(At(A, n, i, j), At(A, n, j, j)), At(A, n, j, c)))
        ELSE A[l]]

\* the factorization after columns 1..j
RECURSIVE dgetrf_(_, _, _)
dgetrf_(A, n, j) ==
  IF j = 0 THEN [A |-> A, ipiv |-> <<>>, info |-> 0]
  ELSE LET s == dgetrf_(A, n, j - 1)
           p == PivotRow(s.A, n, j, n)
       IN IF At(s.A, n, p, j).n # 0
          THEN [A |-> Eliminate(SwapRows(s.A, n, j, p), n, j),
                ipiv |-> Append(s.ipiv, p), info |-> s.info]
          ELSE [A |-> s.A, ipiv |-> Append(s.ipiv, p),
                info |-> IF s.info = 0 THEN j ELSE s.info]

\* dlaswp: the row interchanges 1..k applied to b
RECURSIVE ApplyPivots(_, _, _)
ApplyPivots(b, ipiv, k) ==
  IF k = 0 THEN b
  ELSE LET c == ApplyPivots(b, ipiv, k - 1)
       IN [c EXCEPT ![k] = c[ipiv[k]], ![ipiv[k]] = c[k]]

\* L*y = b, unit lower triangle, columns 1..j done
RECURSIVE Forward(_, _, _, _)
Forward(A, n, b, j) ==
  IF j = 0 THEN b
  ELSE LET c == Forward(A, n, b, j - 1)
       IN [i \in 1..n |->
             IF i > j THEN DSub(c[i], DMul(At(A, n, i, j), c[j])) ELSE c[i]]

\* U*x = y, columns n down to j done
RECURSIVE Backward(_, _, _, _)
Backward(A, n, b, j) ==
  IF j = n + 1 THEN b
  ELSE LET c == Backward(A, n, b, j + 1)
           xj == DDiv(c[j], At(A, n, j, j))
       IN [i \in 1..n |->
             IF i = j THEN xj
             ELSE IF i < j THEN DSub(c[i], DMul(At(A, n, i, j), xj))
             ELSE c[i]]

dgetrs_(A, n, ipiv, b) == Backward(A, n, Forward(A, n, ApplyPivots(b, ipiv, n), n), 1)

dgesv_(n, nrhs, A, lda, ipiv, b, ldb) ==
  LET least == IF n > 1 THEN n ELSE 1
      illegal == IF n < 0 THEN -1
                 ELSE IF nrhs < 0 THEN -2
                 ELSE IF lda < least THEN -4
                 ELSE IF ldb < least THEN -7
                 ELSE 0
      lu == dgetrf_(A, n, n)
  IN IF illegal # 0 THEN [A |-> A, ipiv |-> ipiv, b |-> b, info |-> illegal]
     ELSE IF lu.info # 0 THEN [A |-> lu.A, ipiv |-> lu.ipiv, b |-> b, info |-> lu.info]
     ELSE [A |-> lu.A, ipiv |-> lu.ipiv, b |-> dgetrs_(lu.A, n, lu.ipiv, b), info |-> 0]

(***************************************************************************)
(* solveLapack, lines 93-106: success = 1 and the matrix is zero-filled.   *)
(***************************************************************************)
\* an entry that leaves the matrix as the last call left it
KeepMatrix(A, n) == A

\* line 106: memset of n*n doubles to 0
ResetMatrix(A, n) == [l \in 1..(n * n) |-> D(0)]

SolveLapackEntry ==
  /\ lapackCall.pc \in {"idle", "returned"}
  /\ linearSystemData' = [linearSystemData EXCEPT
       !.A = ResetMatrix(linearSystemData.A, linearSystemData.size)]
  /\ lapackCall' = [lapackCall EXCEPT
       !.pc = "setA", !.success = TRUE, !.warning = NoWarning,
       !.trace = <<"memset">>, !.atEntry = linearSystemData.A]
  /\ UNCHANGED <<lapackData, hybrdVars, roundTrip, dispatchVars>>

\* line 109: the assembly callback writes the entries of its matrix that are
\* not zero
setA ==
  /\ lapackCall.pc = "setA"
  /\ \E M \in Matrices(linearSystemData.size) :
       /\ linearSystemData' = [linearSystemData EXCEPT
            !.A = [l \in 1..(linearSystemData.size * linearSystemData.size) |->
                     IF M[l].n # 0 THEN M[l] ELSE linearSystemData.A[l]]]
       /\ lapackCall' = [lapackCall EXCEPT
            !.pc = "setb", !.described = M,
            !.trace = Append(lapackCall.trace, "setA")]
  /\ UNCHANGED <<lapackData, hybrdVars, roundTrip, dispatchVars>>

\* line 111: the callback writes the right-hand side
setb ==
  /\ lapackCall.pc = "setb"
  /\ \E r \in RhsVectors(linearSystemData.size) :
       linearSystemData' = [linearSystemData EXCEPT !.b = r]
  /\ lapackCall' = [lapackCall EXCEPT
       !.pc = "dgesv", !.trace = Append(lapackCall.trace, "setb")]
  /\ UNCHANGED <<lapackData, hybrdVars, roundTrip, dispatchVars>>

\* lines 141-148: the one invocation of dgesv_
CallDgesv ==
  /\ lapackCall.pc = "dgesv"
  /\ \E r \in {dgesv_(linearSystemData.size, lapackData.nrhs, linearSystemData.A,
                      linearSystemData.size, lapackData.ipiv, linearSystemData.b,
                      linearSystemData.size)} :
       /\ linearSystemData' = [linearSystemData EXCEPT !.A = r.A, !.b = r.b]
       /\ lapackData' = [lapackData EXCEPT !.ipiv = r.ipiv, !.info = r.info]
       /\ lapackCall' = [lapackCall EXCEPT
            !.pc = "classify", !.assembled = linearSystemData.A,
            !.status = r.info, !.rhs = r.b,
            !.trace = Append(lapackCall.trace, "dgesv_")]
  /\ UNCHANGED <<hybrdVars, roundTrip, dispatchVars>>

\* a classification that takes only a negative status for a failure
ClassifyNegativeOnly(success, info) ==
  IF info < 0
  THEN [success |-> FALSE, warning |-> [kind |-> "illegal", index |-> info]]
  ELSE [success |-> success, warning |-> NoWarning]

\* lines 150-188: the status is classified and the warning printed
Classify(success, info) ==
  IF info < 0
  THEN [success |-> FALSE, warning |-> [kind |-> "illegal", index |-> info]]
  ELSE IF info > 0
  THEN [success |-> FALSE, warning |-> [kind |-> "singular", index |-> info + 1]]
  ELSE [success |-> success, warning |-> NoWarning]

\* a return that leaves the solution slot alone
KeepSolution(sys) == sys

\* line 191: memcpy of size doubles from b to x
TakeSolution(sys) == [sys EXCEPT !.x = [i \in 1..sys.size |-> sys.b[i]]]

\* lines 150-194
SolveLapackReturn ==
  /\ lapackCall.pc = "classify"
  /\ \E c \in {Classify(lapackCall.success, lapackData.info)} :
       lapackCall' = [lapackCall EXCEPT
         !.pc = "returned", !.success = c.success, !.warning = c.warning]
  /\ linearSystemData' = TakeSolution(linearSystemData)
  /\ UNCHANGED <<lapackData, hybrdVars, roundTrip, dispatchVars>>

(***************************************************************************)
(* The two scaling round trips on their own, for every vector, every       *)
(* strictly positive scale and both values of useXScaling.                 *)
(***************************************************************************)
TripValues == {D(0), D(-3), Mk(1, 3, 0), DExp(5, -1), D(7)}
PositiveScales == {D(2), Mk(1, 3, 0), D(10)}

TripAt(x, useXScaling, nlsxScaling) ==
  [x |-> x, x0 |-> x, useXScaling |-> useXScaling, nlsxScaling |-> nlsxScaling,
   at |-> "start"]

NoTrip == roundTrip = TripAt(Vec(D(0)), TRUE, Vec(D(1)))

InitTrip ==
  \E x \in [Idx -> TripValues], s \in [Idx -> PositiveScales], u \in BOOLEAN :
     roundTrip = TripAt(x, u, s)

\* lines 140-167: the adapter around a residual function that reads x only
AdapterRoundTrip ==
  /\ roundTrip.at = "start"
  /\ roundTrip' = [roundTrip EXCEPT
       !.x = wrapper_fvec_hybrd(roundTrip.x, roundTrip.useXScaling,
                                roundTrip.nlsxScaling),
       !.at = "adapter"]
  /\ UNCHANGED <<hybrdVars, lapackVars, dispatchVars>>

\* lines 288-293 and 324-329 around a root-finder that leaves x where it is
OrchestratorRoundTrip ==
  /\ roundTrip.at = "start"
  /\ roundTrip' = [roundTrip EXCEPT
       !.x = RescaleX(ScaleX(roundTrip.x, roundTrip.useXScaling,
                             roundTrip.nlsxScaling),
                      roundTrip.useXScaling, roundTrip.nlsxScaling),
       !.at = "orchestrator"]
  /\ UNCHANGED <<hybrdVars, lapackVars, dispatchVars>>

(***************************************************************************)
(* Dispatch of the residual evaluations.  solveHybrd takes its system from *)
(* its argument sysNumber (lines 222-223); wrapper_fvec_hybrd takes the    *)
(* system, its solver data and its residual function from                  *)
(* simulationInfo.currentNonlinearSystemIndex (lines 123-125, 159).        *)
(***************************************************************************)
Systems == 1..NumSystems

NoSolve == [pc |-> "idle", callbacks |-> 0, evaluations |-> {}, disturbed |-> FALSE]

NoDispatch ==
  /\ currentNonlinearSystemIndex = 1
  /\ solves = [t \in Systems |-> NoSolve]

\* an adapter that is told the system by the solve that called it
SystemOfSolve(index, sysNumber) == sysNumber

\* lines 123-125: the system the adapter works on
currentSys(index, sysNumber) == index

\* one call of wrapper_fvec_hybrd made for the solve of sysNumber
Evaluation(kind, index, sysNumber) ==
  [kind |-> kind, index |-> index, system |-> currentSys(index, sysNumber)]

\* the caller of system t sets the shared index before it calls solveHybrd
SetCurrentSystem ==
  \E t \in Systems :
     /\ solves[t].pc = "idle"
     /\ currentNonlinearSystemIndex' = t
     /\ solves' = [u \in Systems |->
          IF u = t THEN [solves[u] EXCEPT !.pc = "ready"]
          ELSE IF solves[u].pc \in {"loop", "hybrd"}
          THEN [solves[u] EXCEPT !.disturbed = TRUE]
          ELSE solves[u]]
     /\ UNCHANGED <<hybrdVars, lapackVars, roundTrip>>

\* lines 219-274: solveHybrd(data, t) is entered and evaluates the residual
\* once through the adapter
EnterSolve ==
  \E t \in Systems :
     /\ solves[t].pc = "ready"
     /\ solves' = [solves EXCEPT ![t] =
          [pc |-> "loop", callbacks |-> 0,
           evaluations |-> {Evaluation("direct", currentNonlinearSystemIndex, t)},
           disturbed |-> currentNonlinearSystemIndex # t]]
     /\ UNCHANGED <<currentNonlinearSystemIndex, hybrdVars, lapackVars, roundTrip>>

\* lines 278-313: the root-finder is invoked with the adapter as callback
InvokeRootFinder ==
  \E t \in Systems :
     /\ solves[t].pc = "loop"
     /\ solves' = [solves EXCEPT ![t].pc = "hybrd"]
     /\ UNCHANGED <<currentNonlinearSystemIndex, hybrdVars, lapackVars, roundTrip>>

\* the root-finder of the solve of t calls the adapter
ResidualCallback ==
  \E t \in Systems :
     /\ solves[t].pc = "hybrd"
     /\ solves[t].callbacks < MaxCallbacks
     /\ solves' = [solves EXCEPT
          ![t].callbacks = solves[t].callbacks + 1,
          ![t].evaluations = solves[t].evaluations
             \cup {Evaluation("callback", currentNonlinearSystemIndex, t)}]
     /\ UNCHANGED <<currentNonlinearSystemIndex, hybrdVars, lapackVars, roundTrip>>

\* lines 320-606: the root-finder returns and solveHybrd returns
SolveReturns ==
  \E t \in Systems :
     /\ solves[t].pc = "hybrd"
     /\ solves' = [solves EXCEPT ![t] = NoSolve]
     /\ UNCHANGED <<currentNonlinearSystemIndex, hybrdVars, lapackVars, roundTrip>>

(***************************************************************************)
(* The specifications.  A nonlinear system and a linear system are solved  *)
(* independently of each other; each specification follows one of them     *)
(* and leaves the other as it was allocated.                               *)
(***************************************************************************)
Init == InitHybrd /\ LapackAllocated(LsSize) /\ NoTrip /\ NoDispatch

Next == SolveHybrdEntry \/ InvokeHybrd \/ HybrdDone \/ Return

Spec == Init /\ [][Next]_vars

\* solveHybrd against a root-finder that stalls whenever it is invoked;
\* solveHybrd is sequential code that runs on once it is entered
NextStalling == SolveHybrdEntry \/ InvokeHybrd \/ HybrdStalls \/ Return

FairSpec == Init /\ [][NextStalling]_vars /\ WF_vars(NextStalling)

\* solveHybrd called on the same system again after it has returned
NextAgain ==
  SolveHybrdEntry \/ SolveHybrdAgain \/ InvokeHybrd \/ HybrdStallsOrSolves \/ Return

SpecAgain == Init /\ [][NextAgain]_vars

\* the linear solver, called again and again on systems of every size
NoHybrd ==
  HybrdAllocated(CHOOSE u \in Uninitialized : TRUE, CHOOSE sys \in SystemDatas : TRUE)

InitLin == InitLapack /\ NoHybrd /\ NoTrip /\ NoDispatch

NextLin == SolveLapackEntry \/ setA \/ setb \/ CallDgesv \/ SolveLapackReturn

SpecLin == InitLin /\ [][NextLin]_vars

\* the scaling round trips
InitScaling == InitTrip /\ NoHybrd /\ LapackAllocated(LsSize) /\ NoDispatch

NextScaling == AdapterRoundTrip \/ OrchestratorRoundTrip

SpecScaling == InitScaling /\ [][NextScaling]_vars

\* solves of different systems by callers that run at once
InitConcurrent == NoDispatch /\ NoHybrd /\ LapackAllocated(LsSize) /\ NoTrip

NextConcurrent ==
  SetCurrentSystem \/ EnterSolve \/ InvokeRootFinder \/ ResidualCallback \/ SolveReturns

SpecConcurrent == InitConcurrent /\ [][NextConcurrent]_vars

(***************************************************************************)
(* Properties of solveHybrd.                                               *)
(***************************************************************************)
Returned == pc = "returned"

\* all tiers are spent and the last invocation stalled as well
Exhausted ==
  /\ hist.tier = "giveup"
  /\ Stalled(solverData)
  /\ local.retries = 5 /\ local.retries2 = 3 /\ local.retries3 = 7

\* the tolerance after k relaxations, from the initial 1e-12
RECURSIVE ToleranceAfter(_)
ToleranceAfter(k) == IF k = 0 THEN DExp(1, -12) ELSE DMul(ToleranceAfter(k - 1), D(10))

\* C1: when solveHybrd has returned, whatever branch ended the loop, nlsx
\* is the iterate x as it stood, re-scaled, after the last invocation of
\* the root-finder: no tier changed x after that invocation.
C1_WritesBack == Returned => systemData.nlsx = hist.xAfter

\* a call that ended on a code no branch matches, after recovery tiers
\* (among them the perturbation T1c) had changed x
C1_Witness ==
  /\ Returned /\ hist.tier = "none" /\ hist.recoveries >= 5
  /\ systemData.nlsx = hist.xAfter

\* C2: once entered, the loop of solveHybrd exits and solveHybrd returns,
\* whatever codes and norms the root-finder hands back.
C2_Terminates == (pc = "loop") ~> Returned

\* the return after every invocation stalled
C2_Witness == Returned /\ Exhausted

\* C3 as stated: at most 14 recovery actions, 15 invocations, in one call
C3_AtMost14 == hist.recoveries <= 14 /\ hist.invocations <= 15

\* C3: in one call at most 191 recovery actions re-enter the loop, so the
\* root-finder is invoked at most 192 times.
C3_AtMost191 == hist.recoveries <= 191 /\ hist.invocations <= 192

C3_Witness == Returned /\ hist.recoveries = 191 /\ hist.invocations = 192

\* C4: when solveHybrd has succeeded, the last invocation ended with code
\* 1, or one of the two norms is at most 1e-12 times 10 for each T3f
\* action taken in this call.
C4_SuccessMeansNormBound ==
  local.success =>
    \/ hist.lastInfo = 1
    \/ DLeq(local.xerror, ToleranceAfter(hist.t3f))
    \/ DLeq(local.xerror_scaled, ToleranceAfter(hist.t3f))

\* success on a stall code, reached only under the twice relaxed tolerance
C4_Witness ==
  /\ Returned /\ local.success /\ hist.lastInfo = 5 /\ hist.t3f = 2
  /\ DLess(ToleranceAfter(1), local.xerror)
  /\ DLess(ToleranceAfter(1), local.xerror_scaled)

\* C5 as stated: after every invocation stalled, solveHybrd returns false
\* and nlsx is the iterate the root-finder left when it was started from
\* the T3e seed (extrapolated values, diagonal 1.0)
C5_FinalIterateIsT3e ==
  (Returned /\ Exhausted) => (~local.success /\ systemData.nlsx = hist.xT3e)

\* C5: after every invocation stalled, solveHybrd returns false and nlsx
\* is the iterate the root-finder left at its last invocation, whose start
\* value comes from the last restart, R3 (the old values), not from T3e.
C5_FinalIterateIsLast ==
  (Returned /\ Exhausted) =>
    /\ ~local.success
    /\ systemData.nlsx = hist.xAfter
    /\ hist.seed = "R3"

C5_Witness == Returned /\ Exhausted /\ systemData.nlsx # hist.xT3e

\* C6: when solveHybrd returns false, found_solution is -1.
C6_FailureIsFlagged ==
  (Returned /\ ~local.success) => simulationInfo.found_solution = -1

\* C7: when solveHybrd has returned, the factor in the solver data is the
\* factor the call was entered with.
C7_FactorRestored == Returned => solverData.factor = hist.entryFactor

\* a success at an invocation that ran with the factor divided three times
C7_Witness ==
  /\ Returned /\ local.success
  /\ hist.factorUsed = DExp(1, -1)
  /\ solverData.factor = hist.entryFactor

(***************************************************************************)
(* Properties of solveLapack.                                              *)
(***************************************************************************)
LapackReturned == lapackCall.pc = "returned"

\* Scenario B: [[1,0],[0,0]] * x = [1,0]
ScenarioB ==
  /\ linearSystemData.size = 2
  /\ lapackCall.assembled = ZeroPivotMatrix(2, 2)

\* C8: when solveLapack has returned, it returned true exactly if the status
\* dgesv_ wrote is 0: a negative status and a positive status both return
\* false; the status is still in the solver data; and the system
\* [[1,0],[0,0]] * x = [1,0] has status 2.
C8_TrueIffStatusZero ==
  LapackReturned =>
    /\ lapackCall.success <=> (lapackCall.status = 0)
    /\ lapackData.info = lapackCall.status
    /\ ScenarioB => lapackCall.status = 2 /\ ~lapackCall.success

C8_Witness ==
  /\ LapackReturned
  /\ ScenarioB
  /\ linearSystemData.b = <<D(1), D(0)>>
  /\ lapackData.info = 2
  /\ ~lapackCall.success

\* C9: when dgesv_ returned a positive status k, the warning solveLapack
\* printed says the system is singular and names the index k itself.
C9_ReportsStatusIndex ==
  (LapackReturned /\ lapackCall.status > 0) =>
    /\ lapackCall.warning.kind = "singular"
    /\ lapackCall.warning.index = lapackCall.status

\* C10: when solveLapack has returned, with any status, x equals b, and b is
\* as dgesv_ left it.
C10_WritesBack ==
  LapackReturned =>
    /\ linearSystemData.x = linearSystemData.b
    /\ linearSystemData.b = lapackCall.rhs

C10_Witness ==
  /\ LapackReturned
  /\ lapackCall.status > 0
  /\ ~lapackCall.success
  /\ linearSystemData.x = <<D(1), D(2)>>
  /\ linearSystemData.b = <<D(1), D(2)>>

(***************************************************************************)
(* Properties of the scaling.                                              *)
(***************************************************************************)
\* C11: with strictly positive scale factors, the adapter's multiplication
\* by the scale and by its inverse around a residual function that leaves x
\* alone, and solveHybrd's un-scaling and re-scaling around a root-finder
\* that leaves x alone, both give back the vector they started from, in
\* exact arithmetic; with useXScaling off neither changes the vector at all.
C11_RoundTrip == roundTrip.at # "start" => roundTrip.x = roundTrip.x0

C11_Witness ==
  /\ roundTrip.at = "adapter"
  /\ roundTrip.useXScaling
  /\ roundTrip.x0 = [i \in Idx |-> Mk(1, 3, 0)]
  /\ roundTrip.nlsxScaling = [i \in Idx |-> Mk(1, 3, 0)]
  /\ roundTrip.x = roundTrip.x0

\* C12: the residual function is called with x in physical coordinates only
\* (before the loop, from within the root-finder, and after the invocation
\* of a discrete call); the ladder finds x in physical coordinates, x is
\* physical when solveHybrd returns, un-scaled exactly while the root-finder
\* holds it with useXScaling on, and the direct evaluations leave
\* useXScaling as it was.
C12_PhysicalCoordinates ==
  /\ hist.residualSpaces \subseteq {0}
  /\ hist.ladderSpace = 0
  /\ hist.flagRestored
  /\ hist.space = (IF pc = "hybrd" /\ solverData.useXScaling THEN 1 ELSE 0)

C12_Witness ==
  /\ Returned
  /\ simulationInfo.discreteCall
  /\ hist.residualSpaces = {0}
  /\ hist.seed = "R3"
  /\ hist.invocations > 20

\* the last pass of the ladder: the root-finder has returned at least once
\* and solveHybrd stands at the loop head
AfterLadder == pc = "loop" /\ hist.invocations > 0

\* the ladder in the order T1a, T1b, T1c, R1, R2, R3, T3a .. T3f, for the
\* counters c as they were before the pass
TierAsStated(success, info, c) ==
  IF success THEN "solved"
  ELSE IF info \in {4, 5}
  THEN IF c.retries < 3 THEN "T1a"
       ELSE IF c.retries < 4 THEN "T1b"
       ELSE IF c.retries < 5 THEN "T1c"
       ELSE IF c.retries2 < 1 THEN "R1"
       ELSE IF c.retries2 < 2 THEN "R2"
       ELSE IF c.retries2 < 3 THEN "R3"
       ELSE IF c.retries3 < 1 THEN "T3a"
       ELSE IF c.retries3 < 2 THEN "T3b"
       ELSE IF c.retries3 < 3 THEN "T3c"
       ELSE IF c.retries3 < 4 THEN "T3d"
       ELSE IF c.retries3 < 5 THEN "T3e"
       ELSE IF c.retries3 < 7 THEN "T3f"
       ELSE "giveup"
  ELSE IF info \in {2, 3} THEN "giveup"
  ELSE "none"

\* C13: after every invocation the branch taken is the first of the ladder
\* T1a, T1b, T1c, R1, R2, R3, T3a, T3b, T3c, T3d, T3e, T3f whose guard holds
\* for the stored termination code and the counters: a recovery tier only
\* for a code 4 or 5 that did not converge, an R tier only with retries = 5,
\* a T3 tier only with retries = 5 and retries2 = 3, the T3 tiers one after
\* the other by retries3, and codes 2 and 3 give up at once.
C13_StrictTierOrder ==
  AfterLadder =>
    hist.tier = TierAsStated(local.success, solverData.info, hist.before)

\* C14: after three T1a actions (retries = 3), the next stalled invocation
\* fires T1b, which clears useXScaling and leaves x as the invocation left
\* it; T1c fires only on the stall after that (retries = 4).
C14_T1bDisablesScaling ==
  /\ (AfterLadder /\ hist.tier \in RecoveryTiers /\ hist.before.retries = 3) =>
       /\ hist.tier = "T1b"
       /\ ~solverData.useXScaling
       /\ solverData.x = hist.xAfter
  /\ (AfterLadder /\ hist.tier = "T1c") => hist.before.retries = 4

\* one of the two norms of the last invocation is within the tolerance that
\* the convergence test used
WithinTolerance ==
  \/ DLeq(local.xerror, hist.tolerance)
  \/ DLeq(local.xerror_scaled, hist.tolerance)

\* C15: after every invocation, and when solveHybrd has returned, success is
\* set exactly if one of the two norms is within the tolerance in effect,
\* whatever the code; a code 1 with both norms above the tolerance is stored
\* as 4 and answered by a recovery tier or by giving up, as a stall is; any
\* other code is stored as it came.
C15_CodeOneNotTrusted ==
  (hist.invocations > 0 /\ pc \in {"loop", "returned"}) =>
    /\ local.success <=> WithinTolerance
    /\ (hist.lastInfo = 1 /\ ~WithinTolerance) =>
         /\ solverData.info = 4
         /\ hist.tier \in RecoveryTiers \cup {"giveup"}
    /\ (hist.lastInfo # 1 \/ WithinTolerance) => solverData.info = hist.lastInfo

C15_Witness ==
  /\ AfterLadder
  /\ hist.lastInfo = 1
  /\ solverData.info = 4
  /\ ~WithinTolerance
  /\ hist.tier = "R2"

\* C16: in a discrete call the seed, which the residual is evaluated at
\* before the loop and the first invocation starts from, is nlsxOld, the
\* vector tier R3 restarts from; in any other call it is nlsxExtrapolation.
C16_DiscreteSeedIsOld ==
  pc # "idle" =>
    hist.x0 = (IF simulationInfo.discreteCall
               THEN systemData.nlsxOld ELSE systemData.nlsxExtrapolation)

\* C17: when the last invocation returned code 0, found_solution is -1, no
\* recovery tier has fired on it, the loop ends and solveHybrd returns
\* false; found_solution is never -1 after a call that returned true.
C17_ImproperInputFails ==
  /\ (hist.invocations > 0 /\ pc \in {"loop", "returned"} /\ hist.lastInfo = 0) =>
       /\ simulationInfo.found_solution = -1
       /\ hist.tier \notin RecoveryTiers
       /\ local.giveUp
       /\ ~local.success
  /\ (Returned /\ local.success) => simulationInfo.found_solution # -1

\* C18: in a call made during initialization the error-at-time report is
\* never emitted; in any call it is emitted at most once; when solveHybrd
\* has returned it has been emitted exactly once if the call was made
\* outside initialization and gave up with a stored code in 2..5, and not
\* at all otherwise, so never in a call that returned true.
C18_QuietInitialization ==
  /\ simulationInfo.initial => hist.errorAtTime = 0
  /\ hist.errorAtTime <= 1
  /\ Returned =>
       hist.errorAtTime =
         (IF /\ ~simulationInfo.initial
             /\ ~local.success
             /\ solverData.info \in 2..5
          THEN 1 ELSE 0)

C18_Witness ==
  /\ Returned
  /\ simulationInfo.initial
  /\ hist.tier = "giveup"
  /\ solverData.info = 3
  /\ hist.errorAtTime = 0

\* the steps of one call, and how many of them are behind each position
Protocol == <<"memset", "setA", "setb", "dgesv_">>
StepsDone ==
  [idle |-> 0, setA |-> 1, setb |-> 2, dgesv |-> 3, classify |-> 4, returned |-> 4]

\* C19: every call of solveLapack zero-fills the matrix, calls setA once,
\* calls setb once and invokes dgesv_ exactly once, in this order, whatever
\* the status; the matrix dgesv_ is given is the matrix setA described, the
\* entries setA did not write being 0, also when the call found the
\* factorization of an earlier solve in the matrix.
C19_Protocol ==
  /\ lapackCall.trace = SubSeq(Protocol, 1, StepsDone[lapackCall.pc])
  /\ lapackCall.pc = "setA" =>
       \A l \in DOMAIN linearSystemData.A : linearSystemData.A[l] = D(0)
  /\ lapackCall.pc \in {"classify", "returned"} =>
       lapackCall.assembled = lapackCall.described

C19_Witness ==
  /\ LapackReturned
  /\ lapackCall.status > 0
  /\ linearSystemData.size = 2
  /\ lapackCall.atEntry # UninitializedMatrix(2)
  /\ \E l \in 1..4 : lapackCall.atEntry[l].n # 0 /\ lapackCall.described[l].n = 0
  /\ lapackCall.assembled = lapackCall.described

\* C20: local_tol is 1e-12 when a call of solveHybrd has been entered; after
\* that a step changes it only by tier T3f firing, to 10 times its value,
\* after T3a, T3b, T3c, T3d and T3e have fired in this call, at most twice
\* per call and never to more than 1e-10; no step makes it smaller within a
\* call.
C20_ToleranceRelaxation ==
  [][IF pc \in {"idle", "returned"}
     THEN local'.local_tol = DExp(1, -12)
     ELSE \/ local'.local_tol = local.local_tol
          \/ /\ pc = "hybrd"
             /\ hist'.tier = "T3f"
             /\ local'.local_tol = DMul(local.local_tol, D(10))
             /\ {"T3a", "T3b", "T3c", "T3d", "T3e"} \subseteq hist.fired
             /\ hist'.t3f <= 2
             /\ DLeq(local'.local_tol, DExp(1, -10))]_vars

C20_Witness ==
  /\ hist.calls = 2
  /\ hist.left = DExp(1, -10)
  /\ hist.t3f = 1
  /\ local.local_tol = DExp(1, -11)

(***************************************************************************)
(* Properties of the dispatch.                                             *)
(***************************************************************************)
InSolve(t) == solves[t].pc \in {"loop", "hybrd"}

\* C21: every residual evaluation made for a solve works on the system the
\* shared index names at that moment, not on the system number solveHybrd
\* was called with; in a call during which the index has been the system
\* number all the time, every evaluation works on the system being solved.
C21_DispatchBySharedIndex ==
  \A t \in Systems :
     /\ \A e \in solves[t].evaluations : e.system = e.index
     /\ (InSolve(t) /\ ~solves[t].disturbed) =>
          \A e \in solves[t].evaluations : e.system = t

\* two solves are under way, and a callback of the root-finder of one was
\* evaluated with the other system's residual function and scale factors
C21_Witness ==
  \E t \in Systems, u \in Systems :
     /\ t # u
     /\ InSolve(t) /\ InSolve(u)
     /\ [kind |-> "callback", index |-> u, system |-> u] \in solves[t].evaluations

\* C22: the counters stay within 0..5 (retries), 0..3 (retries2) and 0..7
\* (retries3); a call that returns false after an invocation that stalled
\* (code 4 or 5, both norms above tolerance), which is the end of a call
\* whose every invocation stalled, has invoked the root-finder exactly 192
\* times and fired exactly 191 recovery tiers: 160 T1 tiers, 24 R tiers and
\* 7 T3 tiers.
C22_ExactWorkWhenStalling ==
  /\ local.retries \in 0..5
  /\ local.retries2 \in 0..3
  /\ local.retries3 \in 0..7
  /\ (Returned /\ ~local.success /\ solverData.info \in {4, 5}) =>
       /\ hist.invocations = 192
       /\ hist.recoveries = 191
       /\ hist.actions = [t1 |-> 160, r |-> 24, t3 |-> 7]

C22_Witness ==
  /\ Returned
  /\ ~local.success
  /\ solverData.info = 5
  /\ simulationInfo.discreteCall
  /\ hist.invocations = 192
  /\ hist.actions = [t1 |-> 160, r |-> 24, t3 |-> 7]

\* C23: when a call entered with x-scaling enabled and mode 1 (the
\* root-finder computes the diagonal itself) returns, on whatever path,
\* useXScaling is still TRUE and mode is still 1, as allocateHybrdData set
\* them: no tier's configuration is left behind for the next call.
C23_NoRetryConfigurationLeaks ==
  Returned => (solverData.useXScaling /\ solverData.mode = 1)

\* C24: the damping factor handed to an invocation of the root-finder is
\* the factor the call was entered with, divided by 10^k, where k counts
\* the T1a tiers fired since the entry or since the last of R3, T3a .. T3f
\* (T1c, R1 and R2 leave k alone), and k never exceeds 9.
C24_BoundedDegradation ==
  /\ hist.divisions \in 0..9
  /\ pc = "hybrd" =>
       hist.factorUsed = DDiv(hist.entryFactor, D(Pow10(hist.divisions)))

\* an invocation with the factor of three T1 rounds' divisions: 100 / 10^9
C24_Witness ==
  /\ pc = "hybrd"
  /\ hist.divisions = 9
  /\ hist.factorUsed = DExp(1, -7)
  /\ local.retries2 = 2

====
